---- MODULE Spec2Model ----
(***************************************************************************)
(* Model of presigned_url.py: the module-level resolution of the s3ApiUrl  *)
(* override (Endpoint Resolver) and usage_demo (URL Request Dispatcher).   *)
(*                                                                         *)
(* Strings that the program takes apart or assembles are sequences of      *)
(* fragments: the s3ApiUrl value is a sequence whose "." fragments are the *)
(* dots that str.split('.') cuts at, a timeout argument is a sequence of   *)
(* characters, and a printed line is the sequence of the literal and       *)
(* interpolated parts of its f-string.                                     *)
(***************************************************************************)
EXTENDS Integers, Sequences, FiniteSets, TLC

VARIABLES
    pc,            \* position of the run
    env,           \* the process environment: s3ApiUrl fragments, or Unset
    fs,            \* names of the local files that can be opened and read
    region,        \* module global region
    endpoint_url,  \* module global endpoint_url
    argv,          \* command line after the program name
    args,          \* parsed arguments (Namespace), or None
    s3_client,     \* configuration the signing client was built with, or None
    signRequests,  \* requests handed to s3_client.generate_presigned_url
    signerResult,  \* what the signer did with the request: "url", "ClientError",
                   \* "BotoCoreError", or None before the call
    url,           \* value returned by generate_presigned_url, or None
    object_text,   \* content read from the local file, or None
    response,      \* response of the HTTP call, or None
    httpCalls,     \* requests.get / requests.put calls made, in order
    fileReads,     \* names of the files opened, in order
    stdout,        \* lines printed, each a sequence of fragments
    log,           \* records emitted by the logger (level INFO and above)
    exc,           \* uncaught exception that ended the run, or None
    raisedAt,      \* the call that raised it, or None
    exitCode       \* process exit status, or None while running

vars == <<pc, env, fs, region, endpoint_url, argv, args, s3_client, signRequests,
          signerResult, url, object_text, response, httpCalls, fileReads, stdout, log, exc,
          raisedAt, exitCode>>

None == "None"
\* the value None of the variable response, which otherwise holds a record
NoResponse == [status_code |-> -1, text |-> "None"]
\* the value None of args and of s3_client, which otherwise hold records
NoArgs == [bucket |-> "None", key |-> "None", action |-> "None", timeout |-> <<>>]
NoClient == [region_name |-> "None", endpoint_url |-> "None"]
Unset == <<"Unset">>

-----------------------------------------------------------------------------
(* Bounds of the model *)

\* largest number of dot-separated segments of an s3ApiUrl value
MaxSegments == 5
\* largest number of characters of the timeout argument
MaxTimeoutLen == 2

-----------------------------------------------------------------------------
(* String helpers *)

Range(s) == {s[i] : i \in 1..Len(s)}

\* str.split('.') : the fragments between the "." fragments, concatenated
RECURSIVE SplitFrom(_, _, _)
SplitFrom(s, i, cur) ==
    IF i > Len(s) THEN <<cur>>
    ELSE IF s[i] = "." THEN <<cur>> \o SplitFrom(s, i + 1, "")
    ELSE SplitFrom(s, i + 1, cur \o s[i])

SplitDots(s) == SplitFrom(s, 1, "")

\* '.'.join(parts)
RECURSIVE JoinDots(_)
JoinDots(parts) ==
    IF Len(parts) = 0 THEN ""
    ELSE IF Len(parts) = 1 THEN parts[1]
    ELSE parts[1] \o "." \o JoinDots(Tail(parts))

\* the text of a sequence of fragments
RECURSIVE Text(_)
Text(s) == IF Len(s) = 0 THEN "" ELSE s[1] \o Text(Tail(s))

-----------------------------------------------------------------------------
(* Endpoint Resolver: module level, lines 20-38 *)

DefaultRegion == "us-west-002"

\* f"https://s3.{region}.backblazeb2.com", as the string and as its fragments
EndpointTemplate(r) == "https://s3." \o r \o ".backblazeb2.com"
EndpointTemplateParts(r) == <<"https://s3", ".", r, ".", "backblazeb2", ".", "com">>

AllowList == {"us-west-000", "us-west-001", "us-west-002", "eu-central-003"}

\* environ.get('s3ApiUrl', f"https://s3.{region}.backblazeb2.com")
EnvironGet(e, r) == IF e = Unset THEN EndpointTemplateParts(r) ELSE e

\* variant of the shape test that stops after the scheme segment
ShapeOkLoose(p) ==
    /\ Len(p) = 4
    /\ p[1] = "https://s3"

\* the shape test of line 30, as written: index 2 of the split (p[3] here)
\* is compared with both "backblazeb2" and "com"
ShapeOk(p) ==
    /\ Len(p) = 4
    /\ p[1] = "https://s3"
    /\ p[3] = "backblazeb2"
    /\ p[3] = "com"

\* the allow-list test of line 34
RegionAllowed(p) == p[2] \in AllowList

\* the value of endpoint_url after the try block, given its value before
ResolvedEndpointUrl(e, r, before) ==
    LET environ_endpoint_url == SplitDots(EnvironGet(e, r))
    IN  IF ShapeOk(environ_endpoint_url) /\ RegionAllowed(environ_endpoint_url)
        THEN JoinDots(environ_endpoint_url)
        ELSE before

\* Inputs: the s3ApiUrl values tried. Segment i of a value is drawn from Seg(i).
Seg(i) ==
    CASE i = 1 -> {"https://s3", "http://s3"}
      [] i = 2 -> AllowList \cup {"us-east-005"}
      [] i = 3 -> {"backblazeb2", "amazonaws"}
      [] i = 4 -> {"com", "org"}
      [] OTHER -> {"com"}

\* the fragments of the string whose dot-separated segments are p
RECURSIVE Dotted(_)
Dotted(p) ==
    IF Len(p) = 0 THEN <<>>
    ELSE IF Len(p) = 1 THEN <<p[1]>>
    ELSE <<p[1], ".">> \o Dotted(Tail(p))

RECURSIVE SegmentLists(_)
SegmentLists(n) ==
    IF n = 0 THEN {<<>>}
    ELSE {Append(p, x) : p \in SegmentLists(n - 1), x \in Seg(n)}

Overrides ==
    {Unset} \cup UNION {{Dotted(p) : p \in SegmentLists(n)} : n \in 0..MaxSegments}

\* the module-level code: region and endpoint_url are assigned (lines 20-21)
\* and the try block may reassign endpoint_url. Nothing in the try block can
\* raise (environ.get returns a str), and the logger.debug records are below
\* the INFO level set on line 18, so nothing is logged.
Resolve ==
    /\ pc = "import"
    /\ pc' = "main"
    /\ region' = DefaultRegion
    /\ endpoint_url' = ResolvedEndpointUrl(env, DefaultRegion, EndpointTemplate(DefaultRegion))
    /\ UNCHANGED <<env, fs, argv, args, s3_client, signRequests, signerResult, url, object_text,
                   response, httpCalls, fileReads, stdout, log, exc, raisedAt, exitCode>>

-----------------------------------------------------------------------------
(* URL Request Dispatcher: argument parsing, lines 65-77 *)

Dashes == "----------------------------------------------------------------------------------------"

Choices == {"get", "put", "dryget", "dryput"}

Digits == {"0", "6"}
DigitValue(c) == IF c = "6" THEN 6 ELSE 0

AllDigits(t) == \A i \in 1..Len(t) : t[i] \in Digits

\* argparse takes an argument that starts with "-" for an option, unless it
\* is "-" alone or a negative number; the parser declares no such option, so
\* the parse fails
LooksLikeOption(t) == Len(t) >= 2 /\ t[1] = "-" /\ ~AllDigits(Tail(t))

\* parse_args accepts the command line: the four positionals are present
\* and action is one of the choices (timeout has no type: any string passes)
ArgsAccepted(a) ==
    /\ Len(a) = 4
    /\ a[3] \in Choices
    /\ ~LooksLikeOption(a[4])

\* Inputs: the command lines tried
Buckets == {"b"}
Keys == {"k", "missing.txt"}
Actions == Choices \cup {"delete"}
TimeoutChars == Digits \cup {"-", "x"}
Timeouts == UNION {[1..n -> TimeoutChars] : n \in 1..MaxTimeoutLen}
CommandLines ==
    {<<b, k, a>> : b \in Buckets, k \in Keys, a \in Actions}
    \cup {<<b, k, a, t>> : b \in Buckets, k \in Keys, a \in Actions, t \in Timeouts}

Banner == <<<<Dashes>>, <<"Welcome to the Amazon S3 presigned URL demo.">>, <<Dashes>>>>

\* lines 66-77 with a command line that parse_args accepts
ParseArgsOk ==
    /\ pc = "main"
    /\ ArgsAccepted(argv)
    /\ stdout' = stdout \o Banner
    /\ args' = [bucket |-> argv[1], key |-> argv[2], action |-> argv[3], timeout |-> argv[4]]
    /\ pc' = "parsed"
    /\ UNCHANGED <<env, fs, region, endpoint_url, argv, s3_client, signRequests, signerResult, url,
                   object_text, response, httpCalls, fileReads, log, exc, raisedAt,
                   exitCode>>

\* lines 66-77 with a command line that parse_args rejects: parser.error
\* prints the usage to stderr and exits with status 2
ParseArgsFail ==
    /\ pc = "main"
    /\ ~ArgsAccepted(argv)
    /\ stdout' = stdout \o Banner
    /\ pc' = "exited"
    /\ exc' = "SystemExit"
    /\ raisedAt' = "parse_args"
    /\ exitCode' = 2
    /\ UNCHANGED <<env, fs, region, endpoint_url, argv, args, s3_client, signRequests,
                   signerResult, url, object_text, response, httpCalls, fileReads, log>>

-----------------------------------------------------------------------------
(* Signing, lines 41-62 and 79-85 *)

\* variant of line 81 that tests for "get" alone
ClientActionGetOnly(action) == IF action = "get" THEN "get_object" ELSE "put_object"

\* line 81
ClientAction(action) == IF action \in {"get", "dryget"} THEN "get_object" ELSE "put_object"

\* int(args.timeout): an optional sign and one or more digits, else ValueError
RECURSIVE DecimalValue(_, _)
DecimalValue(t, acc) ==
    IF Len(t) = 0 THEN acc ELSE DecimalValue(Tail(t), 10 * acc + DigitValue(t[1]))

IntOf(t) ==
    LET signed == Len(t) >= 1 /\ t[1] = "-"
        body   == IF signed THEN Tail(t) ELSE t
    IN  IF Len(body) >= 1 /\ AllDigits(body)
        THEN [ok |-> TRUE, value |-> IF signed THEN 0 - DecimalValue(body, 0)
                                                ELSE DecimalValue(body, 0)]
        ELSE [ok |-> FALSE, value |-> 0]

\* the arguments of the call on lines 82-83
PresignRequest(a) ==
    [ClientMethod |-> ClientAction(a.action),
     Params       |-> [Bucket |-> a.bucket, Key |-> a.key],
     ExpiresIn    |-> IntOf(a.timeout).value]

\* boto3.client('s3', region_name=region, endpoint_url=endpoint_url)
Boto3Client == [region_name |-> region, endpoint_url |-> endpoint_url]

\* Inputs: the URLs the signer may return
SignedUrls == {"https://example/x", "https://example/y"}

\* lines 79-83: int(args.timeout) raises ValueError before the signer is called
TimeoutValueError ==
    /\ pc = "parsed"
    /\ ~IntOf(args.timeout).ok
    /\ s3_client' = Boto3Client
    /\ pc' = "exited"
    /\ exc' = "ValueError"
    /\ raisedAt' = "int"
    /\ exitCode' = 1
    /\ UNCHANGED <<env, fs, region, endpoint_url, argv, args, signRequests, signerResult, url,
                   object_text, response, httpCalls, fileReads, stdout, log>>

\* lines 79-85: the signer returns a URL
SignOk ==
    /\ pc = "parsed"
    /\ IntOf(args.timeout).ok
    /\ s3_client' = Boto3Client
    /\ signRequests' = Append(signRequests, PresignRequest(args))
    /\ signerResult' = "url"
    /\ \E u \in SignedUrls :
        /\ url' = u
        /\ log' = Append(log, <<"INFO", "Got presigned URL: ", u>>)
    /\ stdout' = Append(stdout, <<"Using the Requests package to send a request to the URL.">>)
    /\ pc' = "signed"
    /\ UNCHANGED <<env, fs, region, endpoint_url, argv, args, object_text, response,
                   httpCalls, fileReads, exc, raisedAt, exitCode>>

\* variant of the except clause without the raise: the error is logged and
\* the run goes on
ClientErrorSwallowed(request) ==
    [log |-> <<"ERROR", "Couldn't get a presigned URL for client method ", request.ClientMethod>>,
     pc |-> "signed", exc |-> None, raisedAt |-> None, exitCode |-> None]

\* what the except clause of lines 58-61 leaves behind: the error is logged
\* and raised again, and the run ends
ClientErrorHandled(request) ==
    [log |-> <<"ERROR", "Couldn't get a presigned URL for client method ", request.ClientMethod>>,
     pc |-> "exited", exc |-> "ClientError", raisedAt |-> "generate_presigned_url",
     exitCode |-> 1]

\* lines 79-83, 51-61: the signer raises ClientError
SignClientError ==
    /\ pc = "parsed"
    /\ IntOf(args.timeout).ok
    /\ s3_client' = Boto3Client
    /\ signRequests' = Append(signRequests, PresignRequest(args))
    /\ signerResult' = "ClientError"
    /\ LET h == ClientErrorHandled(PresignRequest(args))
       IN  /\ log' = Append(log, h.log)
           /\ pc' = h.pc
           /\ exc' = h.exc
           /\ raisedAt' = h.raisedAt
           /\ exitCode' = h.exitCode
    /\ UNCHANGED <<env, fs, region, endpoint_url, argv, args, url, object_text, response,
                   httpCalls, fileReads, stdout>>

\* lines 79-83, 51-57: the signer raises an exception that is no ClientError
\* (NoCredentialsError, ParamValidationError): no except clause matches
SignOtherError ==
    /\ pc = "parsed"
    /\ IntOf(args.timeout).ok
    /\ s3_client' = Boto3Client
    /\ signRequests' = Append(signRequests, PresignRequest(args))
    /\ signerResult' = "BotoCoreError"
    /\ pc' = "exited"
    /\ exc' = "BotoCoreError"
    /\ raisedAt' = "generate_presigned_url"
    /\ exitCode' = 1
    /\ UNCHANGED <<env, fs, region, endpoint_url, argv, args, url, object_text, response,
                   httpCalls, fileReads, stdout, log>>

-----------------------------------------------------------------------------
(* Transfer, lines 86-93 *)

\* variant of the branch that also sends the dry-run actions to the transport
TransferForPrefix(action) ==
    IF action \in {"get", "dryget"} THEN "get"
    ELSE IF action \in {"put", "dryput"} THEN "put"
    ELSE "none"

\* the branch of lines 87-93 the action takes
TransferFor(action) ==
    IF action = "get" THEN "get"
    ELSE IF action = "put" THEN "put"
    ELSE "none"

\* requests.get(url)
GetCall(u) == [method |-> "GET", url |-> u, data |-> None]

\* requests.put(url, data=object_text)
PutCall(u, text) == [method |-> "PUT", url |-> u, data |-> text]

\* the content of a local file
FileText(name) == "content of " \o name

\* variant without the file read: the key itself is sent
ReadSkipped(name, files) == [ok |-> TRUE, text |-> name]

\* the with block of lines 91-92: the file is opened and read, or open raises
ReadOutcome(name, files) ==
    IF name \in files THEN [ok |-> TRUE, text |-> FileText(name)]
    ELSE [ok |-> FALSE, text |-> None]

\* Inputs: the responses the HTTP transport may give
Responses == {[status_code |-> 200, text |-> "hello"],
              [status_code |-> 403, text |-> "AccessDenied"]}

\* line 88: requests.get returns a response
HttpGetOk ==
    /\ pc = "signed"
    /\ TransferFor(args.action) = "get"
    /\ httpCalls' = Append(httpCalls, GetCall(url))
    /\ \E r \in Responses : response' = r
    /\ pc' = "responded"
    /\ UNCHANGED <<env, fs, region, endpoint_url, argv, args, s3_client, signRequests,
                   signerResult, url, object_text, fileReads, stdout, log, exc, raisedAt, exitCode>>

\* line 88: requests.get raises (no connection, timeout of the transport)
HttpGetError ==
    /\ pc = "signed"
    /\ TransferFor(args.action) = "get"
    /\ httpCalls' = Append(httpCalls, GetCall(url))
    /\ pc' = "exited"
    /\ exc' = "ConnectionError"
    /\ raisedAt' = "requests.get"
    /\ exitCode' = 1
    /\ UNCHANGED <<env, fs, region, endpoint_url, argv, args, s3_client, signRequests,
                   signerResult, url, object_text, response, fileReads, stdout, log>>

\* lines 90-92: the local file is read
ReadFileOk ==
    /\ pc = "signed"
    /\ TransferFor(args.action) = "put"
    /\ ReadOutcome(args.key, fs).ok
    /\ stdout' = Append(stdout, <<"Putting data to the URL.">>)
    /\ fileReads' = Append(fileReads, args.key)
    /\ object_text' = ReadOutcome(args.key, fs).text
    /\ pc' = "file_read"
    /\ UNCHANGED <<env, fs, region, endpoint_url, argv, args, s3_client, signRequests,
                   signerResult, url, response, httpCalls, log, exc, raisedAt, exitCode>>

\* lines 90-91: open raises
ReadFileError ==
    /\ pc = "signed"
    /\ TransferFor(args.action) = "put"
    /\ ~ReadOutcome(args.key, fs).ok
    /\ stdout' = Append(stdout, <<"Putting data to the URL.">>)
    /\ fileReads' = Append(fileReads, args.key)
    /\ pc' = "exited"
    /\ exc' = "FileNotFoundError"
    /\ raisedAt' = "open"
    /\ exitCode' = 1
    /\ UNCHANGED <<env, fs, region, endpoint_url, argv, args, s3_client, signRequests,
                   signerResult, url, object_text, response, httpCalls, log>>

\* line 93: requests.put returns a response
HttpPutOk ==
    /\ pc = "file_read"
    /\ httpCalls' = Append(httpCalls, PutCall(url, object_text))
    /\ \E r \in Responses : response' = r
    /\ pc' = "responded"
    /\ UNCHANGED <<env, fs, region, endpoint_url, argv, args, s3_client, signRequests,
                   signerResult, url, object_text, fileReads, stdout, log, exc, raisedAt, exitCode>>

\* line 93: requests.put raises
HttpPutError ==
    /\ pc = "file_read"
    /\ httpCalls' = Append(httpCalls, PutCall(url, object_text))
    /\ pc' = "exited"
    /\ exc' = "ConnectionError"
    /\ raisedAt' = "requests.put"
    /\ exitCode' = 1
    /\ UNCHANGED <<env, fs, region, endpoint_url, argv, args, s3_client, signRequests,
                   signerResult, url, object_text, response, fileReads, stdout, log>>

-----------------------------------------------------------------------------
(* Printing, lines 95-109 *)

\* 'dry' in args.action
HasDry(action) == action \in {"dryget", "dryput"}

\* str(n) of a natural number
DigitText(d) ==
    CASE d = 0 -> "0" [] d = 1 -> "1" [] d = 2 -> "2" [] d = 3 -> "3" [] d = 4 -> "4"
      [] d = 5 -> "5" [] d = 6 -> "6" [] d = 7 -> "7" [] d = 8 -> "8" [] d = 9 -> "9"
RECURSIVE DecimalText(_)
DecimalText(n) ==
    IF n < 10 THEN DigitText(n) ELSE DecimalText(n \div 10) \o DigitText(n % 10)

\* the f-string of lines 100 and 103 (the two lines are the same)
CurlCommand(u, filename) ==
    <<"curl ", "-XPUT", " '", u, "' ", "-T", " ", filename,
      " -H \"X-Bz-Content-Sha1: $(sha1sum ", filename, " |cut -d' '  -f1)\"">>

\* the lines printed by lines 96-103
DryLines(action, u, filename) ==
    << <<"The presigned URL is: ", u>> >> \o
    (IF action = "dryput"
     THEN << <<"To upload the file you can use">>, CurlCommand(u, filename) >>
     ELSE << <<"To download the file you can use">>, CurlCommand(u, filename) >>)

\* variant of lines 105-109 without print(response.text)
ResponseLinesNoBody(r) ==
    << <<"Got response:">>, <<"Status: ", DecimalText(r.status_code)>>, <<Dashes>> >>

\* the lines printed by lines 105-109
ResponseLines(r) ==
    << <<"Got response:">>, <<"Status: ", DecimalText(r.status_code)>>, <<r.text>>,
       <<Dashes>> >>

\* control has reached line 95
AtPrint ==
    \/ pc = "responded"
    \/ pc = "signed" /\ TransferFor(args.action) = "none"

\* lines 95-103, and the return of usage_demo
PrintDry ==
    /\ AtPrint
    /\ HasDry(args.action)
    /\ stdout' = stdout \o DryLines(args.action, url, args.key)
    /\ pc' = "exited"
    /\ exitCode' = 0
    /\ UNCHANGED <<env, fs, region, endpoint_url, argv, args, s3_client, signRequests,
                   signerResult, url, object_text, response, httpCalls, fileReads, log, exc, raisedAt>>

\* lines 104-109, and the return of usage_demo
PrintResponse ==
    /\ AtPrint
    /\ ~HasDry(args.action)
    /\ response # NoResponse
    /\ stdout' = stdout \o ResponseLines(response)
    /\ pc' = "exited"
    /\ exitCode' = 0
    /\ UNCHANGED <<env, fs, region, endpoint_url, argv, args, s3_client, signRequests,
                   signerResult, url, object_text, response, httpCalls, fileReads, log, exc, raisedAt>>

-----------------------------------------------------------------------------
(* Specification *)

Init ==
    /\ pc = "import"
    /\ env \in Overrides
    /\ fs \in SUBSET {"k"}
    /\ argv \in CommandLines
    /\ region = None
    /\ endpoint_url = None
    /\ args = NoArgs
    /\ s3_client = NoClient
    /\ signerResult = None
    /\ signRequests = <<>>
    /\ url = None
    /\ object_text = None
    /\ response = NoResponse
    /\ httpCalls = <<>>
    /\ fileReads = <<>>
    /\ stdout = <<>>
    /\ log = <<>>
    /\ exc = None
    /\ raisedAt = None
    /\ exitCode = None

Next ==
    \/ Resolve
    \/ ParseArgsOk
    \/ ParseArgsFail
    \/ TimeoutValueError
    \/ SignOk
    \/ SignClientError
    \/ SignOtherError
    \/ HttpGetOk
    \/ HttpGetError
    \/ ReadFileOk
    \/ ReadFileError
    \/ HttpPutOk
    \/ HttpPutError
    \/ PrintDry
    \/ PrintResponse

Spec == Init /\ [][Next]_vars

-----------------------------------------------------------------------------
(* Properties *)

Exited == pc = "exited"

\* the fragments of the correctly formed override for region r
WellFormedOverride(r) == Dotted(<<"https://s3", r, "backblazeb2", "com">>)

\* C1: for every region code r of the allow-list, when s3ApiUrl is the
\* correctly formed https://s3.<r>.backblazeb2.com, the signing client is
\* built with region r and with the override string as its endpoint_url.
C1_OverrideAdopted ==
    \A r \in AllowList :
        (env = WellFormedOverride(r) /\ s3_client # NoClient)
            => /\ s3_client.region_name = r
               /\ s3_client.endpoint_url = Text(env)

\* C2: in a dryget or dryput run in which the signer returned a URL, no HTTP
\* call is made and no local file is read, and when the run has ended some
\* printed line holds the URL the signer returned.
C2_DryRunNoTransfer ==
    (args.action \in {"dryget", "dryput"} /\ signerResult = "url")
        => /\ httpCalls = <<>>
           /\ fileReads = <<>>
           /\ Exited => \E i \in 1..Len(stdout) : url \in Range(stdout[i])

C2_Witness ==
    /\ Exited
    /\ args.action = "dryput"
    /\ url = "https://example/y"
    /\ exitCode = 0

\* C3: in a get run in which the signer returned URL u, at most one HTTP call
\* is ever made, it is a GET of u, and no file is read; when the run has ended
\* exactly one GET of u has been made, and the status code and the body of
\* its response have been printed.
C3_GetOneRequest ==
    (args.action = "get" /\ signerResult = "url")
        => /\ Len(httpCalls) <= 1
           /\ \A i \in 1..Len(httpCalls) :
                httpCalls[i].method = "GET" /\ httpCalls[i].url = url
           /\ fileReads = <<>>
           /\ Exited => Len(httpCalls) = 1
           /\ (Exited /\ response # NoResponse)
                => /\ \E i \in 1..Len(stdout) :
                        stdout[i] = <<"Status: ", DecimalText(response.status_code)>>
                   /\ \E i \in 1..Len(stdout) : stdout[i] = <<response.text>>
           /\ (Exited /\ exitCode = 0) => response # NoResponse

C3_Witness ==
    /\ Exited
    /\ args.action = "get"
    /\ url = "https://example/x"
    /\ response = [status_code |-> 403, text |-> "AccessDenied"]
    /\ exitCode = 0

\* C4: in a put run whose key names no readable file, no HTTP call is ever
\* made, and when the signer returned a URL the run ends with the uncaught
\* error of the file read and a non-zero exit status.
C4_PutMissingFile ==
    (args.action = "put" /\ args.key \notin fs)
        => /\ httpCalls = <<>>
           /\ (Exited /\ signerResult = "url")
                => /\ exc = "FileNotFoundError"
                   /\ raisedAt = "open"
                   /\ exitCode # 0

C4_Witness ==
    /\ Exited
    /\ args.action = "put"
    /\ args.key = "missing.txt"
    /\ exc = "FileNotFoundError"
    /\ fileReads = <<"missing.txt">>

\* C5: for every action, when the signer rejects the request with ClientError
\* the error is logged and raised again: the run has ended in failure with
\* that exception, no file is read, no HTTP call is made, and nothing is
\* printed after the banner.
C5_SignerRejection ==
    signerResult = "ClientError"
        => /\ Exited
           /\ exc = "ClientError"
           /\ exitCode # 0
           /\ Len(log) = 1 /\ log[1][1] = "ERROR"
           /\ url = None
           /\ fileReads = <<>>
           /\ httpCalls = <<>>
           /\ stdout = Banner

C5_Witness ==
    /\ signerResult = "ClientError"
    /\ Exited
    /\ args.action = "put"
    /\ log # <<>>

\* a value that is malformed or names a region outside the allow-list
NotAdoptable(e) == \A r \in AllowList : e # WellFormedOverride(r)

\* C6: for every s3ApiUrl that is absent, malformed or names a region outside
\* the allow-list, the resolved configuration is the default (region
\* us-west-002, endpoint_url https://s3.us-west-002.backblazeb2.com), the
\* resolution raises nothing, and the signing client is built with the default.
C6_FallbackToDefault ==
    (pc # "import" /\ (env = Unset \/ NotAdoptable(env)))
        => /\ region = "us-west-002"
           /\ endpoint_url = "https://s3.us-west-002.backblazeb2.com"
           /\ pc = "main" => exc = None
           /\ s3_client # NoClient
                => /\ s3_client.region_name = "us-west-002"
                   /\ s3_client.endpoint_url = "https://s3.us-west-002.backblazeb2.com"

C6_Witness ==
    /\ pc = "main"
    /\ env = <<"https://s3", ".", "us-west-000", ".", "amazonaws", ".", "org">>
    /\ endpoint_url = "https://s3.us-west-002.backblazeb2.com"

\* C7: every operation requested from the signer is get_object when the
\* action is get or dryget and put_object when it is put or dryput.
C7_ActionMapping ==
    \A i \in 1..Len(signRequests) :
        /\ args.action \in {"get", "dryget"} => signRequests[i].ClientMethod = "get_object"
        /\ args.action \in {"put", "dryput"} => signRequests[i].ClientMethod = "put_object"
        /\ signRequests[i].ClientMethod \in {"get_object", "put_object"}
        /\ args.action \in {"get", "dryget", "put", "dryput"}

C7_Witness ==
    /\ Len(signRequests) = 1
    /\ args.action = "dryget"
    /\ signRequests[1].ClientMethod = "get_object"

\* C8: every request handed to the signer has expires_in > 0, for any
\* timeout value the command line accepts.
C8_ExpiresPositive ==
    \A i \in 1..Len(signRequests) : signRequests[i].ExpiresIn > 0

\* C9: a run exits non-zero exactly when argument parsing fails or an
\* uncaught failure comes from the signing call or from the local file read.
C9_ExitStatus ==
    Exited =>
        (exitCode # 0 <=> raisedAt \in {"parse_args", "generate_presigned_url", "open"})

\* the storage operation a printed curl command performs
CommandOperation(cmd) ==
    IF "-XPUT" \in Range(cmd) \/ "-T" \in Range(cmd) THEN "put_object" ELSE "get_object"

\* C10: the command printed last by a dry run performs the signed operation
\* (a download for dryget, an upload for dryput) and names the key and the URL.
C10_DryCommandMatches ==
    (Exited /\ args.action \in {"dryget", "dryput"} /\ signerResult = "url")
        => LET cmd == stdout[Len(stdout)]
           IN  /\ CommandOperation(cmd) = signRequests[1].ClientMethod
               /\ args.key \in Range(cmd)
               /\ url \in Range(cmd)

====
